---- MODULE Spec2Model ----
(***************************************************************************)
(* A model of auto_tag_rekordbox.py: the per-track pipeline of main() (AI  *)
(* query with retry, source reconciliation, validation, normalisation,     *)
(* Club/Transition suffixes, energy rating, tag-store write, library       *)
(* database update, ledger update) together with the pure string functions *)
(* it calls.  Strings are TLA+ strings handled character by character, so  *)
(* that the regular expressions and the str methods of the source are      *)
(* modelled by what they do.                                               *)
(***************************************************************************)
EXTENDS Integers, Sequences, FiniteSets, TLC

(***************************************************************************)
(* Python str primitives                                                   *)
(*                                                                         *)
(* A local variable of the source that is read more than once is the       *)
(* parameter of a local operator here (LET F(x) == ... IN F(value)), which *)
(* is the same as LET x == value IN ... and is evaluated once.             *)
(***************************************************************************)

\* Python's None, where the other values of the expression are strings.
None == "<None>"

\* `if x:` for x a string or None.
Truthy(s) == s # None /\ s # ""

Ch(s, i) == SubSeq(s, i, i)

LowerLetters == "abcdefghijklmnopqrstuvwxyz"
UpperLetters == "ABCDEFGHIJKLMNOPQRSTUVWXYZ"
Digits == "0123456789"

\* The printable ASCII characters in code-point order (without the double
\* quote, the backslash and the backquote, which no string of the model holds).
AsciiOrder == " !#$%&'()*+,-./0123456789:;<=>?@ABCDEFGHIJKLMNOPQRSTUVWXYZ[]^_abcdefghijklmnopqrstuvwxyz{|}~"

\* The least element of a non-empty set of integers.
First(S) == CHOOSE i \in S : \A j \in S : i <= j

\* The least element of S, d when S is empty.
FirstOr(S, d) == IF S = {} THEN d ELSE First(S)

\* The position of character c in string s, 0 when absent.
IndexOf(c, s) == FirstOr({i \in 1..Len(s) : Ch(s, i) = c}, 0)

\* Code-point rank of a character (control characters rank first).
Ord(c) == IndexOf(c, AsciiOrder)

IsDigit(c) == IndexOf(c, Digits) > 0
IsLetter(c) == IndexOf(c, LowerLetters) > 0 \/ IndexOf(c, UpperLetters) > 0
\* \w of the re module
IsWordCh(c) == IsLetter(c) \/ IsDigit(c) \/ c = "_"
\* \s of the re module, and the characters str.strip() and str.split() drop
IsSpace(c) == c = " " \/ c = "\t" \/ c = "\n"

\* The character at position i of `to` when i > 0, else c.
Translate(c, i, to) == IF i > 0 THEN Ch(to, i) ELSE c

LowerCh(c) == Translate(c, IndexOf(c, UpperLetters), LowerLetters)
UpperCh(c) == Translate(c, IndexOf(c, LowerLetters), UpperLetters)

RECURSIVE lower(_)
lower(s) == IF s = "" THEN "" ELSE LowerCh(Ch(s, 1)) \o lower(SubSeq(s, 2, Len(s)))

RECURSIVE upper(_)
upper(s) == IF s = "" THEN "" ELSE UpperCh(Ch(s, 1)) \o upper(SubSeq(s, 2, Len(s)))

\* str.capitalize(): first character upper-cased, the rest lower-cased.
capitalize(s) == IF s = "" THEN "" ELSE UpperCh(Ch(s, 1)) \o lower(SubSeq(s, 2, Len(s)))

RECURSIVE lstrip(_)
lstrip(s) == IF s # "" /\ IsSpace(Ch(s, 1)) THEN lstrip(SubSeq(s, 2, Len(s))) ELSE s

RECURSIVE rstrip(_)
rstrip(s) == IF s # "" /\ IsSpace(Ch(s, Len(s))) THEN rstrip(SubSeq(s, 1, Len(s) - 1)) ELSE s

strip(s) == rstrip(lstrip(s))

\* s[i:] starts with p  (i is 1-based)
StartsAt(s, i, p) == i >= 1 /\ i + Len(p) - 1 <= Len(s) /\ SubSeq(s, i, i + Len(p) - 1) = p

startswith(s, p) == StartsAt(s, 1, p)
endswith(s, p) == StartsAt(s, Len(s) - Len(p) + 1, p)

\* Python's `p in s`
contains(p, s) == \E i \in 1..(Len(s) - Len(p) + 1) : StartsAt(s, i, p)

\* The first position >= from at which p starts in s, 0 when there is none.
FindFrom(s, p, from) == FirstOr({i \in from..(Len(s) - Len(p) + 1) : StartsAt(s, i, p)}, 0)

\* str.split(sep): the pieces between the occurrences of sep, empty ones kept.
RECURSIVE split(_, _)
split(s, sep) ==
  LET Cut(k) ==
        IF k = 0 THEN <<s>>
        ELSE <<SubSeq(s, 1, k - 1)>> \o split(SubSeq(s, k + Len(sep), Len(s)), sep)
  IN Cut(FindFrom(s, sep, 1))

\* str.split(sep, 1)
split1(s, sep) ==
  LET Cut(k) ==
        IF k = 0 THEN <<s>>
        ELSE <<SubSeq(s, 1, k - 1), SubSeq(s, k + Len(sep), Len(s))>>
  IN Cut(FindFrom(s, sep, 1))

\* str.split(): the maximal runs of non-whitespace characters.
RECURSIVE split_ws(_)
split_ws(s) ==
  LET Take(t, k) == <<SubSeq(t, 1, k - 1)>> \o split_ws(SubSeq(t, k, Len(t)))
      Cut(t) ==
        IF t = "" THEN <<>>
        ELSE Take(t, FirstOr({i \in 1..Len(t) : IsSpace(Ch(t, i))}, Len(t) + 1))
  IN Cut(lstrip(s))

\* str.splitlines()
splitlines(s) ==
  LET Lines(parts) ==
        IF parts[Len(parts)] = "" THEN SubSeq(parts, 1, Len(parts) - 1) ELSE parts
  IN Lines(split(s, "\n"))

\* sep.join(parts)
RECURSIVE join(_, _)
join(parts, sep) ==
  IF Len(parts) = 0 THEN ""
  ELSE IF Len(parts) = 1 THEN parts[1]
  ELSE parts[1] \o sep \o join(Tail(parts), sep)

\* str.replace(old, new), old non-empty
RECURSIVE replace(_, _, _)
replace(s, old, new) ==
  LET Cut(k) ==
        IF k = 0 THEN s
        ELSE SubSeq(s, 1, k - 1) \o new \o replace(SubSeq(s, k + Len(old), Len(s)), old, new)
  IN Cut(FindFrom(s, old, 1))

\* a < b for Python strings: code-point lexicographic order
RECURSIVE StrLess(_, _)
StrLess(a, b) ==
  LET Compare(x, y) ==
        IF x < y THEN TRUE
        ELSE IF x > y THEN FALSE
        ELSE StrLess(SubSeq(a, 2, Len(a)), SubSeq(b, 2, Len(b)))
  IN IF b = "" THEN FALSE
     ELSE IF a = "" THEN TRUE
     ELSE Compare(Ord(Ch(a, 1)), Ord(Ch(b, 1)))

\* [g.strip() for g in parts]
StripAll(parts) == [i \in 1..Len(parts) |-> strip(parts[i])]

\* \b of the re module at the gap before position i of s (1..Len(s)+1)
WordBoundary(s, i) ==
  (i > 1 /\ IsWordCh(Ch(s, i - 1))) # (i <= Len(s) /\ IsWordCh(Ch(s, i)))

\* int(s) for a string of decimal digits
RECURSIVE IntOf(_)
IntOf(s) ==
  IF s = "" THEN 0
  ELSE 10 * IntOf(SubSeq(s, 1, Len(s) - 1)) + (IndexOf(Ch(s, Len(s)), Digits) - 1)

AllDigits(s) == \A i \in 1..Len(s) : IsDigit(Ch(s, i))

\* The sort keys the source uses: key=len with reverse=True, and
\* key=lambda x: x.lower().  KeyBefore(kind, a, b) is "a sorts strictly before b".
KeyBefore(kind, a, b) ==
  IF kind = "len_reverse" THEN Len(a) > Len(b) ELSE StrLess(lower(a), lower(b))

\* sorted(q, key=...): stable, by insertion from the right.
RECURSIVE InsertSorted(_, _, _)
InsertSorted(x, q, kind) ==
  IF Len(q) = 0 THEN <<x>>
  ELSE IF ~KeyBefore(kind, x, q[1])
       THEN <<q[1]>> \o InsertSorted(x, Tail(q), kind)
  ELSE <<x>> \o q

RECURSIVE SortedBy(_, _)
SortedBy(q, kind) ==
  IF Len(q) = 0 THEN <<>>
  ELSE InsertSorted(q[Len(q)], SortedBy(SubSeq(q, 1, Len(q) - 1), kind), kind)

\* dict.get(key, default) on a dict held as a function
Get(d, key, default) == IF key \in DOMAIN d THEN d[key] ELSE default

(***************************************************************************)
(* Title pattern extraction                                                *)
(***************************************************************************)

\* The alternation (?:Remix|Edit|Bootleg|Flip|VIP|Rework|Refix|Mix), matched
\* with re.IGNORECASE.
RemixKeywords == {"remix", "edit", "bootleg", "flip", "vip", "rework", "refix", "mix"}

\* ([^)]+?)\s+(?:Remix|...) matched against the whole text between an opening
\* delimiter and the first closing delimiter after it: group(1), or None.
\* The lazy group ends where the longest run of whitespace before the keyword
\* starts, but holds at least one character.
SpanGroup(content) ==
  LET Upto(pre, m) == SubSeq(pre, 1, IF m >= 1 THEN m ELSE 1)
      Group(pre) == Upto(pre, Len(rstrip(pre)))
      Pick(kws) ==
        IF kws = {} THEN None
        ELSE Group(SubSeq(content, 1, Len(content) - Len(CHOOSE k \in kws : TRUE)))
      Keywords(low) ==
        {kw \in RemixKeywords :
           /\ endswith(low, kw)
           /\ Len(content) - Len(kw) >= 2
           /\ IsSpace(Ch(content, Len(content) - Len(kw)))}
  IN Pick(Keywords(lower(content)))

\* re.search of one remix pattern in the title: the leftmost opening
\* delimiter whose span matches; group(1), or None when nothing matches.
RECURSIVE RemixMatchFrom(_, _, _, _)
RemixMatchFrom(title, open, close, from) ==
  LET Try(i, g) == IF g # None THEN g ELSE RemixMatchFrom(title, open, close, i + 1)
      AtClose(i, k) == IF k = 0 THEN None ELSE Try(i, SpanGroup(SubSeq(title, i + 1, k - 1)))
      AtOpen(i) == IF i = 0 THEN None ELSE AtClose(i, FindFrom(title, close, i + 1))
  IN AtOpen(FindFrom(title, open, from))

RemixMatch(title, open, close) == RemixMatchFrom(title, open, close, 1)

\* re.sub(r'^(?:DJ\s+|dj\s+)', '', remixer)
StripDJ(remixer) ==
  IF (startswith(remixer, "DJ") \/ startswith(remixer, "dj"))
       /\ Len(remixer) >= 3 /\ IsSpace(Ch(remixer, 3))
  THEN lstrip(SubSeq(remixer, 3, Len(remixer)))
  ELSE remixer

extract_remixer_from_title(title) ==
  LET NonEmpty(remixer) == IF remixer # "" THEN remixer ELSE None
      Clean(m) == IF m = None THEN None ELSE NonEmpty(StripDJ(strip(m)))
      Either(paren) == IF paren # None THEN paren ELSE RemixMatch(title, "[", "]")
  IN Clean(Either(RemixMatch(title, "(", ")")))

\* re.search(r'\b' + re.escape(phrase) + r'\b', text)
SearchWholePhrase(phrase, text) ==
  \E p \in 1..(Len(text) - Len(phrase) + 1) :
    /\ StartsAt(text, p, phrase)
    /\ WordBoundary(text, p)
    /\ WordBoundary(text, p + Len(phrase))

\* Title Case of a genre string, component by component.
NormalizeOne(g) ==
  LET Amp(parts) == join([i \in 1..Len(parts) |-> capitalize(strip(parts[i]))], " & ")
      Words(words) == join([i \in 1..Len(words) |-> capitalize(words[i])], " ")
  IN IF upper(g) \in {"EDM", "DNB", "R&B", "UK", "VIP"} THEN upper(g)
     ELSE IF lower(g) = "k-pop" THEN "K-Pop"
     ELSE IF contains("&", g) THEN Amp(split(g, "&"))
     ELSE Words(split_ws(g))

normalize_genre_case(genre) ==
  LET Each(genres) == join([i \in 1..Len(genres) |-> NormalizeOne(genres[i])], " / ")
  IN IF ~Truthy(genre) THEN genre
     ELSE Each(StripAll(split(genre, "/")))

\* The energy map is a dict {level: [genre names]} in insertion order: a
\* sequence of [level, genres] entries, level being the JSON key (a string).
RECURSIVE KnownGenres(_)
KnownGenres(map) ==
  IF Len(map) = 0 THEN <<>> ELSE map[1].genres \o KnownGenres(Tail(map))

IsMultiWord(g) == contains(" ", g) \/ contains("&", g) \/ contains("-", g)

\* The genre searched in one matched span: the first, longest first, of the
\* multi-word genres that occurs in it as a whole phrase; None when none does
\* or the pattern did not match.
GenreInSpan(group, emap) ==
  LET Found(sorted, hits) ==
        IF hits = {} THEN None ELSE normalize_genre_case(sorted[First(hits)])
      Scan(sorted, remix_content) ==
        Found(sorted, {i \in 1..Len(sorted) : SearchWholePhrase(sorted[i], remix_content)})
  IN IF group = None THEN None
     ELSE Scan(SortedBy(SelectSeq(KnownGenres(emap), IsMultiWord), "len_reverse"),
               lower(group))

extract_genre_from_remix_title(title, emap) ==
  LET Either(paren) ==
        IF paren # None THEN paren ELSE GenreInSpan(RemixMatch(title, "[", "]"), emap)
  IN Either(GenreInSpan(RemixMatch(title, "(", ")"), emap))

\* The match of \b(\d{2,3})-(\d{2,3})\b at position p of the title, as
\* <<bpm1, bpm2>> (the two groups, each as long as it can be), or <<>>.
TransitionMatchAt(title, p) ==
  LET Groups(nm) ==
        <<SubSeq(title, p, p + nm[1] - 1), SubSeq(title, p + nm[1] + 1, p + nm[1] + nm[2])>>
      Best(cands) ==
        IF cands = {} THEN <<>>
        ELSE Groups(CHOOSE c \in cands :
                      \A d \in cands : c[1] > d[1] \/ (c[1] = d[1] /\ c[2] >= d[2]))
  IN Best({nm \in {2, 3} \X {2, 3} :
             /\ p + nm[1] + nm[2] <= Len(title)
             /\ WordBoundary(title, p)
             /\ AllDigits(SubSeq(title, p, p + nm[1] - 1))
             /\ Ch(title, p + nm[1]) = "-"
             /\ AllDigits(SubSeq(title, p + nm[1] + 1, p + nm[1] + nm[2]))
             /\ WordBoundary(title, p + nm[1] + nm[2] + 1)})

\* re.search: the leftmost match.
TransitionSearch(title) ==
  LET Leftmost(starts) ==
        IF starts = {} THEN <<>> ELSE TransitionMatchAt(title, First(starts))
  IN Leftmost({p \in 1..Len(title) : TransitionMatchAt(title, p) # <<>>})

BPM_MIN == 60
BPM_MAX == 200

detect_transition(title) ==
  LET InRange(bpm) == BPM_MIN <= bpm /\ bpm <= BPM_MAX
      Check(match) ==
        IF match = <<>> THEN FALSE
        ELSE InRange(IntOf(match[1])) /\ InRange(IntOf(match[2]))
  IN Check(TransitionSearch(title))

\* re.search(r'\bclub\s+<word>\b', text)
SearchClubWord(word, text) ==
  \E p \in 1..Len(text) : \E q \in (p + 5)..Len(text) :
    /\ WordBoundary(text, p)
    /\ StartsAt(text, p, "club")
    /\ \A i \in (p + 4)..(q - 1) : IsSpace(Ch(text, i))
    /\ StartsAt(text, q, word)
    /\ WordBoundary(text, q + Len(word))

detect_club_mix(title) ==
  LET AnyOf(title_lower) ==
        \E word \in {"mix", "version", "edit", "remix"} : SearchClubWord(word, title_lower)
  IN AnyOf(lower(title))

(***************************************************************************)
(* Genre validation, ordering, reply parsing, energy rating                *)
(***************************************************************************)

vague_genres == {"edm", "dance", "electronic", "club music", "music"}

VagueWords == {"dance", "edm", "electronic"}

\* the whole word w occurs in text at position p:  \b w \b
WholeWordAt(w, text, p) ==
  StartsAt(text, p, w) /\ WordBoundary(text, p) /\ WordBoundary(text, p + Len(w))

\* r'\b(dance|edm|electronic)\b.*\b(dance|edm|electronic)\b'
TwoVagueWords(text) ==
  \E p \in 1..Len(text), q \in 1..Len(text) : \E w1 \in VagueWords, w2 \in VagueWords :
    /\ q >= p + Len(w1)
    /\ WholeWordAt(w1, text, p)
    /\ WholeWordAt(w2, text, q)

\* r'\bedit\b$', r'\bmix\b$', r'\bremix\b$'
EndsInWord(text) ==
  \E w \in {"edit", "mix", "remix"} :
    endswith(text, w) /\ WordBoundary(text, Len(text) - Len(w) + 1)

forbidden_patterns(genre_lower) == TwoVagueWords(genre_lower) \/ EndsInWord(genre_lower)

ARTIST_MIN_LEN == 3

\* One component of the genre string is kept by the filter of validate_genre.
GenreKept(genre, remixer, artist) ==
  LET Kept(genre_lower) ==
        /\ genre_lower \notin vague_genres
        /\ ~forbidden_patterns(genre_lower)
        /\ ~(Truthy(remixer) /\ contains(lower(remixer), genre_lower))
        /\ ~(Truthy(artist) /\ Len(artist) > ARTIST_MIN_LEN
               /\ contains(lower(artist), genre_lower))
        /\ genre_lower # "club"
  IN Kept(strip(lower(genre)))

validate_genre(genre_string, title, artist) ==
  LET Joined(filtered_genres) ==
        IF Len(filtered_genres) = 0 THEN None ELSE join(filtered_genres, " / ")
      Filter(remixer, genres) ==
        LET Keep(g) == GenreKept(g, remixer, artist)
        IN Joined(SelectSeq(genres, Keep))
  IN IF ~Truthy(genre_string) THEN None
     ELSE Filter(extract_remixer_from_title(title), StripAll(split(genre_string, "/")))

sort_genre(genre_string) ==
  IF ~contains("/", genre_string) THEN genre_string
  ELSE join(SortedBy(StripAll(split(genre_string, "/")), "lower"), " / ")

\* The value a reply line sets: text after the first colon, trimmed.
LineValue(line) == strip(split1(line, ":")[2])

\* The effect of one line of the reply on the dict `data`.
ParseLine(data, line) ==
  IF startswith(line, "Is Remix:")
    THEN ("is_remix" :> (lower(LineValue(line)) = "yes")) @@ data
  ELSE IF startswith(line, "Genre:")
    THEN ("genre" :> sort_genre(LineValue(line))) @@ data
  ELSE IF startswith(line, "Original Artists:")
    THEN ("artists" :> LineValue(line)) @@ data
  ELSE IF startswith(line, "Original Song Release:")
    THEN ("year" :> LineValue(line)) @@ data
  ELSE IF startswith(line, "Situation:")
    THEN ("situation" :> LineValue(line)) @@ data
  ELSE IF startswith(line, "Commercial Friendly:")
    THEN ("commercial" :> LineValue(line)) @@ data
  ELSE data

\* the empty dict
EmptyDict == [k \in {} |-> ""]

RECURSIVE ParseLines(_, _)
ParseLines(data, lines) ==
  IF Len(lines) = 0 THEN data ELSE ParseLines(ParseLine(data, lines[1]), Tail(lines))

\* A parser that starts from a record holding the default of is_remix.
ParseOverDefaults(response) == ParseLines(("is_remix" :> FALSE), splitlines(response))

parse_response(response) == ParseLines(EmptyDict, splitlines(response))

\* The value of `rating` when it is None.
NoRating == 0

\* Pass 1 and pass 2 for one component: the levels, in map order, that match.
ExactLevels(single_genre, emap) ==
  {i \in 1..Len(emap) :
     \E j \in 1..Len(emap[i].genres) : emap[i].genres[j] = single_genre}

SubstringLevels(single_genre, emap) ==
  LET AnyOf(sorted_genres) ==
        \E j \in 1..Len(sorted_genres) : contains(sorted_genres[j], single_genre)
  IN {i \in 1..Len(emap) : AnyOf(SortedBy(emap[i].genres, "len_reverse"))}

\* The rating one component contributes, NoRating when it matches nothing.
ComponentRating(single_genre, emap) ==
  LET Level(exact, sub) ==
        IF exact # {} THEN IntOf(emap[First(exact)].level)
        ELSE IF sub # {} THEN IntOf(emap[First(sub)].level)
        ELSE NoRating
  IN Level(ExactLevels(single_genre, emap), SubstringLevels(single_genre, emap))

\* A rating that is the lowest of the levels found.
LowestRating(genre, emap) ==
  LET Lowest(found_ratings) ==
        IF found_ratings = {} THEN NoRating
        ELSE CHOOSE r \in found_ratings : \A x \in found_ratings : r <= x
      Rate(genres) ==
        Lowest({ComponentRating(lower(genres[i]), emap) : i \in 1..Len(genres)} \ {NoRating})
  IN Rate(StripAll(split(genre, "/")))

determine_energy_rating(genre, emap) ==
  LET Highest(found_ratings) ==
        IF found_ratings = {} THEN NoRating
        ELSE CHOOSE r \in found_ratings : \A x \in found_ratings : x <= r
      Rate(genres) ==
        Highest({ComponentRating(lower(genres[i]), emap) : i \in 1..Len(genres)} \ {NoRating})
  IN Rate(StripAll(split(genre, "/")))

(***************************************************************************)
(* External search: the match selection of query_soundcloud_genre          *)
(***************************************************************************)

\* What the search service answers: it is unreachable (the call raises), or
\* it returns a collection of tracks [kind, title, username, genre].
Unreachable == [reachable |-> FALSE, collection |-> <<>>]

Collection(tracks) == [reachable |-> TRUE, collection |-> tracks]

\* One track of the collection is accepted as the match for (title, artist).
SCTrackMatches(track, title, artist) ==
  LET Enough(title_match_count, artist_match, min_matches) ==
        title_match_count >= min_matches \/ (title_match_count >= 1 /\ artist_match)
      Match(track_title, track_artist, search_keywords, artist_keywords) ==
        Enough(Cardinality({i \in 1..Len(search_keywords) :
                              /\ Len(search_keywords[i]) > 3
                              /\ contains(search_keywords[i], track_title)}),
               \E i \in 1..Len(artist_keywords) :
                 /\ Len(artist_keywords[i]) > 2
                 /\ \/ contains(artist_keywords[i], track_artist)
                    \/ contains(artist_keywords[i], track_title),
               IF Truthy(artist) THEN 2 ELSE 3)
  IN /\ track.kind = "track"
     /\ Match(lower(track.title), lower(track.username),
              split_ws(replace(replace(lower(title), "(", " "), ")", " ")),
              IF Truthy(artist) THEN split_ws(lower(artist)) ELSE <<>>)
     /\ track.genre # "" /\ lower(track.genre) \notin {"", "unknown", "other"}

\* The result of the call: <<genre, track_artist>> of the first accepted
\* track, or <<>> for None (disabled, unreachable, no collection, no match).
query_soundcloud_genre(enabled, answer, title, artist) ==
  LET Result(track) == <<track.genre, lower(track.username)>>
      Pick(collection, hits) == IF hits = {} THEN <<>> ELSE Result(collection[First(hits)])
      Scan(collection) ==
        Pick(collection,
             {i \in 1..Len(collection) : SCTrackMatches(collection[i], title, artist)})
  IN IF ~enabled THEN <<>>
     ELSE IF ~answer.reachable THEN <<>>
     ELSE Scan(answer.collection)

\* A check that looks for the whole name of the remixer in the SC artist.
MatchWholeName(remixer, sc_artist) ==
  Truthy(sc_artist) /\ contains(lower(remixer), lower(sc_artist))

\* main(): any keyword of the remixer longer than 2 occurs in the SC artist.
remixer_match(remixer, sc_artist) ==
  LET AnyOf(remixer_keywords, sc_artist_lower) ==
        \E i \in 1..Len(remixer_keywords) :
          Len(remixer_keywords[i]) > 2 /\ contains(remixer_keywords[i], sc_artist_lower)
  IN AnyOf(split_ws(lower(remixer)), IF Truthy(sc_artist) THEN lower(sc_artist) ELSE "")

(***************************************************************************)
(* The inputs of a run: configuration, music library, ledger, the replies  *)
(* of the AI classifier and the answers of the search service              *)
(***************************************************************************)

MAX_RETRIES == 5
BITRATE_MIN == 320000

\* At most this many files are walked through the processing loop in a run.
MaxTracks == 2

\* energy_map.json
EnergyMapA ==
  << [level |-> "3", genres |-> <<"tech house", "house">>],
     [level |-> "4", genres |-> <<"afro house">>],
     [level |-> "5", genres |-> <<"hardstyle">>] >>

EnergyMapB ==
  << [level |-> "2", genres |-> <<"mashup", "club", "unknown">>],
     [level |-> "3", genres |-> <<"house", "tech house">>],
     [level |-> "4", genres |-> <<"afro house">>] >>

\* The configurations a run starts under:
\* [energy_map, soundcloud_enabled, rekordbox_enabled].
Configs ==
  { [energy_map |-> EnergyMapA, soundcloud_enabled |-> TRUE,  rekordbox_enabled |-> TRUE],
    [energy_map |-> EnergyMapB, soundcloud_enabled |-> FALSE, rekordbox_enabled |-> TRUE],
    [energy_map |-> EnergyMapA, soundcloud_enabled |-> FALSE, rekordbox_enabled |-> FALSE] }

\* The .mp3 files under MUSIC_DIR: path, ID3 title and artist (None when the
\* tag is missing), bitrate.
Library ==
  { [path |-> "club.mp3",     title |-> "Track (Club Mix) 128-128", artist |-> None, bitrate |-> 320000],
    [path |-> "dynamite.mp3", title |-> "Dynamite (Ale Lucchi Afro House Remix)", artist |-> None, bitrate |-> 320000],
    [path |-> "afro.mp3",     title |-> "Song (Afro House Remix)", artist |-> None, bitrate |-> 320000],
    [path |-> "anthem.mp3",   title |-> "Anthem", artist |-> "Afro", bitrate |-> 320000],
    [path |-> "lucchi.mp3",   title |-> "Song (Ale Lucchi Remix)", artist |-> None, bitrate |-> 320000],
    [path |-> "anthem2.mp3",  title |-> "Anthem", artist |-> None, bitrate |-> 320000],
    [path |-> "old.mp3",      title |-> "Old Song", artist |-> None, bitrate |-> 320000],
    [path |-> "low.mp3",      title |-> "Low Song", artist |-> None, bitrate |-> 128000],
    [path |-> "untitled.mp3", title |-> None, artist |-> None, bitrate |-> 320000] }


\* processed_songs.json as load_json returns it at the start of the run
LoadedLedger == {"Old Song"}

\* main(), first pass: the files appended to files_to_process.
files_to_process ==
  {f \in Library : f.bitrate >= BITRATE_MIN /\ Truthy(f.title) /\ f.title \notin LoadedLedger}

Titles == {f.title : f \in files_to_process}

\* The files the run can touch.
Paths == {f.path : f \in files_to_process}

FileAt(p) == CHOOSE f \in files_to_process : f.path = p

\* The genre lines the AI classifier answers with.
ReplyGenres ==
  {"House", "EDM", "Polka", "Mashup", "Tech House / Afro House", "Unknown", "Ale Lucchi",
   "Club  Music"}

ReplyText(remix, genre) ==
  "Is Remix: " \o remix \o "\nGenre: " \o genre
    \o "\nOriginal Artists: Some Artist\nOriginal Song Release: 2019"
    \o "\nSituation: Both\nCommercial Friendly: Yes\n"

\* response.text of the replies: the six labelled lines, a reply none of whose
\* lines is recognised, a reply with no Genre line, and an empty reply.
Replies ==
  {ReplyText(remix, genre) : remix \in {"Yes", "No"}, genre \in ReplyGenres}
    \cup {"Sorry, I cannot classify this song.", "Is Remix: Yes\nSituation: Club", " \n"}

SCTrack(title, username, genre) ==
  [kind |-> "track", title |-> title, username |-> username, genre |-> genre]

\* The account names in the answers of the search service.
SCUsernames == {"Ale Lucchi", "Someone Else", "Female DJ"}

\* The answers of the search service, each under a name.
SCAnswers ==
  [ unreachable |-> Unreachable,
    nothing |-> Collection(<<>>),
    remixer |-> Collection(<<SCTrack("Song (Ale Lucchi Remix)", "Ale Lucchi", "Afro House")>>),
    reupload |-> Collection(<<SCTrack("Song (Ale Lucchi Remix)", "Someone Else", "Hardstyle")>>),
    vague |-> Collection(<<SCTrack("Song (Ale Lucchi Remix)", "Ale Lucchi", "EDM")>>),
    namesake |-> Collection(<<SCTrack("Song (Ale Lucchi Remix)", "Female DJ", "Hardstyle")>>) ]

(***************************************************************************)
(* The string functions tabulated over the strings of a run                *)
(***************************************************************************)

\* Every genre string a run can hold before the suffixes are appended: the
\* genre lines of the replies, the genres of the search answers and of the
\* energy maps, and what parsing, validation and normalisation make of them.
GenreStrings ==
  ReplyGenres \cup
    {"", "Afro House", "Hardstyle", "Tech House", "Afro House / Tech House", "Club Music"}

\* Those strings with the suffixes of main().
SuffixedGenres ==
  {g \o c \o t : g \in GenreStrings, c \in {"", " / Club"}, t \in {"", " / Transition"}}

\* The values of the Situation and Commercial Friendly lines.
Situations == {"", "Both", "Club"}
Commercials == {"", "Yes"}

\* main(): `if not response`, response being response.text.strip()
NoResponse == [r \in Replies |-> ~Truthy(strip(r))]

Parsed == [r \in Replies |-> parse_response(strip(r))]

Remixer == [t \in Titles |-> extract_remixer_from_title(t)]

TitleGenre(emap) == [t \in Titles |-> extract_genre_from_remix_title(t, emap)]

IsClubMix == [t \in Titles |-> detect_club_mix(t)]

IsTransition == [t \in Titles |-> detect_transition(t)]

\* sc_result of main() for a search answer and a title, <<>> for None.
SCResult ==
  [a \in DOMAIN SCAnswers, t \in Titles |->
     query_soundcloud_genre(TRUE, SCAnswers[a], t, extract_remixer_from_title(t))]

\* main(): remixer_match for an artist name found by the search.
RemixerMatch ==
  [t \in Titles, u \in {lower(n) : n \in SCUsernames} |->
     remixer_match(extract_remixer_from_title(t), u)]

\* validate_genre for the file at a path
Validated ==
  [g \in GenreStrings, p \in Paths |-> validate_genre(g, FileAt(p).title, FileAt(p).artist)]

Normalized == [g \in GenreStrings |-> normalize_genre_case(g)]

HasClub == [g \in GenreStrings |-> contains("club", lower(g))]

HasTransition == [g \in SuffixedGenres |-> contains("transition", lower(g))]

Lower == [g \in SuffixedGenres |-> lower(g)]

HasMashup == [g \in SuffixedGenres |-> contains("mashup", lower(g))]

Rating(emap) == [g \in SuffixedGenres |-> determine_energy_rating(g, emap)]

\* apply_metadata: "/" becomes ";" in the ID3 genre field
Id3Genre == [g \in SuffixedGenres |-> replace(replace(g, " / ", "; "), "/", "; ")]

\* tag_rekordbox: [g.strip() for g in genre.split('/')]
GenreList ==
  [g \in SuffixedGenres |->
     LET parts == split(g, "/") IN [i \in 1..Len(parts) |-> strip(parts[i])]]

should_add_bar == [x \in Situations |-> contains("bar", lower(x)) \/ lower(x) = "both"]

should_add_club == [x \in Situations |-> contains("club", lower(x)) \/ lower(x) = "both"]

should_add_commercial == [x \in Commercials |-> Truthy(x) /\ lower(x) = "yes"]

\* The tabulated functions, as a run under the energy map emap looks them up.
Tables(emap) ==
  [ NoResponse |-> NoResponse,
    Parsed |-> Parsed,
    Remixer |-> Remixer,
    TitleGenre |-> TitleGenre(emap),
    IsClubMix |-> IsClubMix,
    IsTransition |-> IsTransition,
    SCResult |-> SCResult,
    RemixerMatch |-> RemixerMatch,
    Validated |-> Validated,
    Normalized |-> Normalized,
    HasClub |-> HasClub,
    HasTransition |-> HasTransition,
    Lower |-> Lower,
    HasMashup |-> HasMashup,
    Rating |-> Rating(emap),
    Id3Genre |-> Id3Genre,
    GenreList |-> GenreList,
    should_add_bar |-> should_add_bar,
    should_add_club |-> should_add_club,
    should_add_commercial |-> should_add_commercial ]

(***************************************************************************)
(* State                                                                   *)
(***************************************************************************)

VARIABLES
  energy_map,          \* load_json(ENERGY_MAP_PATH)
  soundcloud_enabled,  \* module global
  rekordbox_enabled,   \* main(): the database could be opened
  processed_songs,     \* the ledger: the set of keys of processed_songs.json
  failed_files,        \* main(): (title, reason) of the AI failures
  unknown_genres,      \* main(): (file, genre) of the unrated genres
  tagstore,            \* the ID3 fields of every file
  db_session,          \* the library database as the open session sees it
  db_committed,        \* the library database as committed
  visited,             \* the paths the processing loop has taken so far
  pc,                  \* where main() is
  cur,                 \* (full_path, title) of the iteration, with the file's artist
  attempt,             \* query_google_ai: the loop variable
  info,                \* the parsed reply, as main() updates it
  gemini_genre,        \* the remembered AI genre
  rating,              \* what apply_metadata returned
  trk,                 \* history of the iteration: what was called and chosen
  memo,                \* the results of the string functions, fixed for the run
  call                 \* a function called on its own: arguments and value returned

vars ==
  <<energy_map, soundcloud_enabled, rekordbox_enabled, processed_songs, failed_files,
    unknown_genres, tagstore, db_session, db_committed, visited, pc, cur, attempt,
    info, gemini_genre, rating, trk, memo, call>>

NoFile == [path |-> None, title |-> None, artist |-> None, bitrate |-> 0]

\* No function is called on its own during a run of main().
NoCall ==
  [fn |-> None, title |-> "", genre |-> "", artist |-> "", emap |-> <<>>, result |-> None]

\* The history of one iteration of the processing loop.
NewTrack ==
  [ ai_ok |-> FALSE,          \* the query returned a non-empty reply
    reply |-> None,           \* response.text of the reply
    title_consulted |-> FALSE,\* extract_genre_from_remix_title was called
    search_invoked |-> FALSE, \* query_soundcloud_genre was called
    sc_result |-> <<>>,       \* what it returned, <<>> for None
    search_failed |-> FALSE,  \* the search service could not be reached
    source |-> "none",        \* where info["genre"] came from: ai, title, search
    handed |-> None,          \* the genre string first handed to validate_genre
    validated |-> None,       \* the genre string validate_genre let through
    fallback |-> FALSE,       \* the remembered AI genre was validated instead
    club_appended |-> FALSE,
    transition_appended |-> FALSE,
    db_call |-> "none",       \* how tag_rekordbox ended
    last_error |-> "none",    \* the kind of the last error of the AI query
    failures |-> <<>>,        \* of the run: the kind of error behind each entry
                              \* of failed_files
    partial |-> {} ]          \* of the run: the paths whose database update
                              \* raised after changes were made

\* The ID3 fields of a file before the run.
TagsOf(f) == [genre |-> None, artist |-> f.artist, date |-> None, popm |-> 0, saved |-> FALSE]

\* The rows of the library database before the run.
OldRow == [genre |-> "Old Genre", rating |-> 1, links |-> {"Bar"}]

InitialTags ==
  { [name |-> "Situation", parent |-> None],
    [name |-> "Genre", parent |-> None],
    [name |-> "Bar", parent |-> "Situation"],
    [name |-> "Club", parent |-> "Situation"] }

InitialDb ==
  [ tracks |-> [p \in Paths |-> OldRow],
    tags |-> InitialTags,
    genres |-> {"Old Genre"} ]

Init ==
  /\ \E c \in Configs :
       /\ memo = Tables(c.energy_map)
       /\ energy_map = c.energy_map
       /\ soundcloud_enabled = c.soundcloud_enabled
       /\ rekordbox_enabled = c.rekordbox_enabled
  /\ processed_songs = LoadedLedger
  /\ failed_files = <<>>
  /\ unknown_genres = <<>>
  /\ tagstore = [p \in Paths |-> TagsOf(CHOOSE f \in Library : f.path = p)]
  /\ db_session = InitialDb
  /\ db_committed = InitialDb
  /\ visited = {}
  /\ pc = "loop"
  /\ cur = NoFile
  /\ attempt = 0
  /\ info = EmptyDict
  /\ gemini_genre = ""
  /\ rating = NoRating
  /\ trk = NewTrack
  /\ call = NoCall

\* The places where the for loop of main() takes its next item.
LoopTop == {"loop", "failed", "skipped", "unrated", "tagged"}

config_vars == <<energy_map, soundcloud_enabled, rekordbox_enabled, memo, call>>
db_vars == <<db_session, db_committed>>

(***************************************************************************)
(* main(): the processing loop                                             *)
(***************************************************************************)

\* for idx, (full_path, title) in enumerate(files_to_process): the next file,
\* its artist read from the file.
StartTrack(f) ==
  /\ pc \in LoopTop
  /\ f \in files_to_process
  /\ f.path \notin visited
  /\ Cardinality(visited) < MaxTracks
  /\ visited' = visited \cup {f.path}
  /\ cur' = f
  /\ pc' = "query"
  /\ attempt' = 0
  /\ info' = EmptyDict
  /\ gemini_genre' = ""
  /\ rating' = NoRating
  /\ trk' = [NewTrack EXCEPT !.failures = trk.failures, !.partial = trk.partial]
  /\ UNCHANGED <<config_vars, processed_songs, failed_files, unknown_genres, tagstore, db_vars>>

\* main(): `if not response`: the track is recorded as failed, next track.
RecordFailed ==
  /\ failed_files' = Append(failed_files, <<cur.title, "API query failed after all retries">>)
  /\ pc' = "failed"
  /\ attempt' = 0

\* A query loop that re-sends after every rate-limit error, whatever the
\* number of attempts made.
RetryWithoutLimit ==
  /\ pc = "query"
  /\ trk' = [trk EXCEPT !.last_error = "rate_limit"]
  /\ attempt' = attempt + 1
  /\ UNCHANGED <<config_vars, processed_songs, failed_files, unknown_genres, tagstore,
                 db_vars, visited, pc, cur, info, gemini_genre, rating>>

\* query_google_ai: chat.send_message raised 429 RESOURCE_EXHAUSTED.
QueryRateLimited ==
  /\ pc = "query"
  /\ trk' = [trk EXCEPT !.last_error = "rate_limit",
                        !.failures = IF attempt < MAX_RETRIES - 1
                                       THEN @ ELSE Append(@, "rate_limit")]
  /\ IF attempt < MAX_RETRIES - 1
       THEN /\ attempt' = attempt + 1
            /\ UNCHANGED <<pc, failed_files>>
       ELSE RecordFailed
  /\ UNCHANGED <<config_vars, processed_songs, unknown_genres, tagstore, db_vars, visited,
                 cur, info, gemini_genre, rating>>

\* query_google_ai: chat.send_message raised any other error.
QueryError ==
  /\ pc = "query"
  /\ trk' = [trk EXCEPT !.last_error = "other", !.failures = Append(@, "other")]
  /\ RecordFailed
  /\ UNCHANGED <<config_vars, processed_songs, unknown_genres, tagstore, db_vars, visited,
                 cur, info, gemini_genre, rating>>

\* main(): info["genre"] = normalize_genre_case(info["genre"]) if it is set
NormalizeGenre(g) == IF Truthy(g) THEN memo.Normalized[g] ELSE g

\* main(): " / Club" is appended for a club mix unless the genre holds "club"
AppendClub(title, g) ==
  IF memo.IsClubMix[title] /\ Truthy(g) /\ ~memo.HasClub[g] THEN g \o " / Club" ELSE g

\* main(): " / Transition" is appended for a transition track unless the genre
\* holds "transition"
AppendTransition(title, g) ==
  IF memo.IsTransition[title] /\ Truthy(g) /\ ~memo.HasTransition[g]
    THEN g \o " / Transition" ELSE g

\* An unknown/empty check that lets every genre through.
NothingUnknown(g) == FALSE

\* main(): genre = info.get("genre", "").lower(); skipped when it is "unknown"
\* or empty
UnknownOrEmpty(g) == ~Truthy(g) \/ memo.Lower[g] = "unknown"

\* A loop that goes on to the tag-store write with a genre that did not pass
\* validation.
SkipOnlyUnknown(invalid, g) == Truthy(g) /\ memo.Lower[g] = "unknown"

\* main(): the two `continue` between the choice of the genre and the
\* tag-store write: nothing passed validation, or the genre is unknown/empty.
SkipTrack(invalid, g) == invalid \/ UnknownOrEmpty(g)

\* main(), from the validation of info["genre"] to the unknown/empty check,
\* for the chosen genre g0 (None when info has no genre): whether the track
\* is skipped, the value of info["genre"], and what was done on the way.
ResolveGenre(f, g0, gemini) ==
  LET Outcome(invalid, use_fallback, g1, g2, g3, g4) ==
        [ skip |-> SkipTrack(invalid, g4),
          invalid |-> invalid,
          genre |-> IF invalid THEN g0 ELSE g4,
          handed |-> IF Truthy(g0) THEN g0 ELSE None,
          validated |-> IF invalid THEN None ELSE g1,
          fallback |-> use_fallback,
          club_appended |-> ~invalid /\ g3 # g2,
          transition_appended |-> ~invalid /\ g4 # g3 ]
      Suffix(invalid, use_fallback, g1, g2, g3) ==
        Outcome(invalid, use_fallback, g1, g2, g3, AppendTransition(f.title, g3))
      Normal(invalid, use_fallback, g1, g2) ==
        Suffix(invalid, use_fallback, g1, g2, AppendClub(f.title, g2))
      Valid(invalid, use_fallback, g1) ==
        Normal(invalid, use_fallback, g1, NormalizeGenre(g1))
      Second(v, use_fallback, v2) ==
        Valid(Truthy(g0) /\ ~Truthy(v) /\ ~Truthy(v2), use_fallback,
              IF ~Truthy(g0) THEN g0 ELSE IF Truthy(v) THEN v ELSE v2)
      Fallback(v, use_fallback) ==
        Second(v, use_fallback, IF use_fallback THEN memo.Validated[gemini, f.path] ELSE None)
      Validate(v) ==
        Fallback(v, /\ Truthy(g0)
                    /\ ~Truthy(v)
                    /\ Truthy(gemini)
                    /\ memo.Lower[gemini] # memo.Lower[g0])
  IN Validate(IF Truthy(g0) THEN memo.Validated[g0, f.path] ELSE None)

\* The rest of the iteration up to the tag-store write, info1 being the
\* parsed reply with the chosen genre.
Resolve(info1, gemini, t) ==
  LET Go(r) ==
        /\ info' = IF ~r.invalid /\ Truthy(r.genre) THEN ("genre" :> r.genre) @@ info1 ELSE info1
        /\ pc' = IF r.skip THEN "skipped" ELSE "apply"
        /\ trk' = [t EXCEPT !.handed = r.handed, !.validated = r.validated,
                            !.fallback = r.fallback,
                            !.club_appended = r.club_appended,
                            !.transition_appended = r.transition_appended]
  IN Go(ResolveGenre(cur, Get(info1, "genre", None), gemini))

\* query_google_ai returned response.text.strip() of reply; main() parses it
\* and chooses the genre source, up to the call of the external search.
QueryReply(reply) ==
  /\ pc = "query"
  /\ LET t0 == [trk EXCEPT !.last_error = IF memo.NoResponse[reply] THEN "empty" ELSE "none",
                           !.reply = reply]
     IN IF memo.NoResponse[reply]
          THEN /\ RecordFailed
               /\ trk' = [t0 EXCEPT !.failures = Append(@, "empty")]
               /\ UNCHANGED <<info, gemini_genre>>
          ELSE LET parsed == memo.Parsed[reply]
                   is_remix == Get(parsed, "is_remix", FALSE)
                   t1 == [t0 EXCEPT !.ai_ok = TRUE, !.source = "ai"]
                   gemini == Get(parsed, "genre", "")
               IN /\ gemini_genre' = gemini
                  /\ attempt' = 0
                  /\ UNCHANGED failed_files
                  /\ IF is_remix
                       THEN LET title_genre == memo.TitleGenre[cur.title]
                                t2 == [t1 EXCEPT !.title_consulted = TRUE]
                            IN IF Truthy(title_genre)
                                 THEN Resolve(("genre" :> title_genre) @@ parsed, gemini,
                                              [t2 EXCEPT !.source = "title"])
                               ELSE IF soundcloud_enabled /\ Truthy(memo.Remixer[cur.title])
                                 THEN /\ info' = parsed
                                      /\ pc' = "search"
                                      /\ trk' = t2
                               ELSE Resolve(parsed, gemini, t2)
                       ELSE Resolve(parsed, gemini, t1)
  /\ UNCHANGED <<config_vars, processed_songs, unknown_genres, tagstore, db_vars, visited,
                 cur, rating>>

\* A source choice that takes the genre of any search result, whoever its
\* artist is.
UseAnyResult(sc_result, title) == sc_result # <<>>

\* main(): the search genre is used when a result came back and its artist
\* matches the remixer.
UseSearchGenre(sc_result, title) ==
  sc_result # <<>> /\ memo.RemixerMatch[title, sc_result[2]]

\* A loop that gives the track up when the search service cannot be reached.
SearchFailureSkips(answer) ==
  /\ pc = "search"
  /\ LET sc_result == IF soundcloud_enabled THEN memo.SCResult[answer, cur.title] ELSE <<>>
         t1 == [trk EXCEPT !.search_invoked = TRUE, !.sc_result = sc_result,
                           !.search_failed = ~SCAnswers[answer].reachable]
     IN IF ~SCAnswers[answer].reachable
          THEN /\ pc' = "skipped"
               /\ trk' = t1
               /\ UNCHANGED info
        ELSE IF UseSearchGenre(sc_result, cur.title)
          THEN Resolve(("genre" :> sc_result[1]) @@ info, gemini_genre,
                       [t1 EXCEPT !.source = "search"])
          ELSE Resolve(info, gemini_genre, t1)
  /\ UNCHANGED <<config_vars, processed_songs, failed_files, unknown_genres, tagstore,
                 db_vars, visited, cur, attempt, gemini_genre, rating>>

\* asyncio.run(query_soundcloud_genre(title, remixer)) answered; main() takes
\* the search genre when the artist matches the remixer, and goes on.
Search(answer) ==
  /\ pc = "search"
  /\ LET sc_result == IF soundcloud_enabled THEN memo.SCResult[answer, cur.title] ELSE <<>>
         t1 == [trk EXCEPT !.search_invoked = TRUE, !.sc_result = sc_result,
                           !.search_failed = ~SCAnswers[answer].reachable]
     IN IF UseSearchGenre(sc_result, cur.title)
          THEN Resolve(("genre" :> sc_result[1]) @@ info, gemini_genre,
                       [t1 EXCEPT !.source = "search"])
          ELSE Resolve(info, gemini_genre, t1)
  /\ UNCHANGED <<config_vars, processed_songs, failed_files, unknown_genres, tagstore,
                 db_vars, visited, cur, attempt, gemini_genre, rating>>

\* rating_map of apply_metadata: the POPM byte of a rating
PopmOf(r) ==
  IF r = 1 THEN 1 ELSE IF r = 2 THEN 64 ELSE IF r = 3 THEN 128
  ELSE IF r = 4 THEN 192 ELSE IF r = 5 THEN 255 ELSE r * 51

\* An apply_metadata that rates a mashup genre like any other genre.
RateAnyGenre(genre) == IF Truthy(genre) THEN memo.Rating[genre] ELSE NoRating

\* apply_metadata(full_path, info, energy_map, unknown_genres): the value it
\* returns.
apply_metadata(genre) ==
  IF Truthy(genre) /\ ~memo.HasMashup[genre] THEN memo.Rating[genre] ELSE NoRating

\* rating = apply_metadata(...), then the check of the rating.
ApplyMetadata ==
  /\ pc = "apply"
  /\ LET genre == Get(info, "genre", "")
         artists == Get(info, "artists", "")
         year == Get(info, "year", "")
         old == tagstore[cur.path]
         r == apply_metadata(genre)
         is_mashup == memo.HasMashup[genre]
     IN /\ tagstore' = [tagstore EXCEPT ![cur.path] =
               [ genre |-> IF Truthy(genre) THEN memo.Id3Genre[genre] ELSE old.genre,
                 artist |-> IF Truthy(artists) THEN artists ELSE old.artist,
                 date |-> IF Truthy(year) THEN year ELSE old.date,
                 popm |-> IF r # NoRating THEN PopmOf(r) ELSE old.popm,
                 saved |-> TRUE ]]
        /\ unknown_genres' =
             IF Truthy(genre) /\ ~is_mashup /\ r = NoRating
               THEN Append(unknown_genres, <<cur.path, genre>>)
               ELSE unknown_genres
        /\ rating' = r
        /\ pc' = IF r = NoRating /\ ~is_mashup THEN "unrated"
                 ELSE IF rekordbox_enabled THEN "rekordbox"
                 ELSE "mark"
  /\ UNCHANGED <<config_vars, processed_songs, failed_files, db_vars, visited, cur, attempt,
                 info, gemini_genre, trk>>

(***************************************************************************)
(* The library database                                                    *)
(***************************************************************************)

\* ensure_tag(name, parent_name) of tag_rekordbox: the database with a MyTag
\* of that name; tags are identified by their name, the lookup being by name.
ensure_tag(db, name, parent_name) ==
  IF \E t \in db.tags : t.name = name THEN db
  ELSE LET parent_id == IF \E t \in db.tags : t.name = parent_name THEN parent_name ELSE None
       IN [db EXCEPT !.tags = @ \cup {[name |-> name, parent |-> parent_id]}]

\* ensure_tag, then the junction row unless the tag is linked already
LinkTag(db, path, name, parent_name) ==
  LET d == ensure_tag(db, name, parent_name)
  IN [d EXCEPT !.tracks[path].links = @ \cup {name}]

RECURSIVE LinkTags(_, _, _, _)
LinkTags(db, path, names, parent_name) ==
  IF Len(names) = 0 THEN db
  ELSE LinkTags(LinkTag(db, path, names[1], parent_name), path, Tail(names), parent_name)

\* tag_rekordbox up to the rating: links cleared, genre upserted and set,
\* rating set unless it is None.
TagBegin(db, path, genre, r) ==
  LET d1 == [db EXCEPT !.tracks[path].links = {}]
      d2 == IF Truthy(genre)
              THEN [d1 EXCEPT !.genres = @ \cup {genre}, !.tracks[path].genre = genre]
              ELSE d1
  IN IF r # NoRating THEN [d2 EXCEPT !.tracks[path].rating = r] ELSE d2

\* tag_rekordbox from there: the situation and commercial tags, the genre tags.
TagLinks(db, path, situation, genre, commercial) ==
  LET names == (IF memo.should_add_bar[situation] THEN <<"Bar">> ELSE <<>>)
                 \o (IF memo.should_add_club[situation] THEN <<"Club">> ELSE <<>>)
                 \o (IF memo.should_add_commercial[commercial] THEN <<"Commercial">> ELSE <<>>)
      d == LinkTags(db, path, names, "Situation")
  IN IF Truthy(genre) THEN LinkTags(d, path, memo.GenreList[genre], "Genre") ELSE d

tag_rekordbox(db, path, situation, genre, r, commercial) ==
  TagLinks(TagBegin(db, path, genre, r), path, situation, genre, commercial)

\* How a call of tag_rekordbox can end: the track is not in the database,
\* a database operation raises before anything was changed, one raises after
\* the genre and rating were set, or all of it runs.
DbOutcomes == {"not_found", "raises", "partway", "ok"}

\* main(): tag_rekordbox(...) and db.commit() inside try/except.
TagRekordbox(outcome, commit_ok) ==
  /\ pc = "rekordbox"
  /\ outcome \in DbOutcomes
  /\ LET genre == Get(info, "genre", "")
         situation == Get(info, "situation", "")
         commercial == Get(info, "commercial", "")
         session ==
           IF outcome = "ok"
             THEN tag_rekordbox(db_session, cur.path, situation, genre, rating, commercial)
           ELSE IF outcome = "partway"
             THEN TagBegin(db_session, cur.path, genre, rating)
           ELSE db_session
         committing == outcome \in {"ok", "not_found"} /\ commit_ok
     IN /\ db_session' = session
        /\ db_committed' = IF committing THEN session ELSE db_committed
        /\ trk' = [trk EXCEPT !.db_call =
                     IF outcome \in {"ok", "not_found"} /\ ~commit_ok THEN "commit_failed"
                     ELSE outcome,
                   !.partial = IF outcome = "partway" THEN @ \cup {cur.path} ELSE @]
  /\ pc' = "mark"
  /\ UNCHANGED <<config_vars, processed_songs, failed_files, unknown_genres, tagstore,
                 visited, cur, attempt, info, gemini_genre, rating>>

\* A loop that adds the title to the ledger only when the call of
\* tag_rekordbox and its commit went through.
MarkUnlessDbFailed ==
  /\ pc = "mark"
  /\ processed_songs' =
       IF trk.db_call \in {"raises", "partway", "commit_failed"} THEN processed_songs
       ELSE processed_songs \cup {cur.title}
  /\ pc' = "tagged"
  /\ UNCHANGED <<config_vars, failed_files, unknown_genres, tagstore, db_vars, visited, cur,
                 attempt, info, gemini_genre, rating, trk>>

\* main(): processed_songs[title] = True; save_json(...)
MarkProcessed ==
  /\ pc = "mark"
  /\ processed_songs' = processed_songs \cup {cur.title}
  /\ pc' = "tagged"
  /\ UNCHANGED <<config_vars, failed_files, unknown_genres, tagstore, db_vars, visited, cur,
                 attempt, info, gemini_genre, rating, trk>>

\* main(): the loop is over: the final commit, the database is closed.
FinalCommit(commit_ok) ==
  /\ pc \in LoopTop
  /\ \/ Cardinality(visited) = MaxTracks
     \/ visited = Paths
  /\ db_committed' = IF rekordbox_enabled /\ commit_ok THEN db_session ELSE db_committed
  /\ pc' = "done"
  /\ cur' = NoFile
  /\ info' = EmptyDict
  /\ gemini_genre' = ""
  /\ rating' = NoRating
  /\ trk' = [NewTrack EXCEPT !.failures = trk.failures, !.partial = trk.partial]
  /\ UNCHANGED <<config_vars, processed_songs, failed_files, unknown_genres, tagstore,
                 db_session, visited, attempt>>

Next ==
  \/ \E f \in files_to_process : StartTrack(f)
  \/ QueryRateLimited
  \/ QueryError
  \/ \E reply \in Replies : QueryReply(reply)
  \/ \E answer \in DOMAIN SCAnswers : Search(answer)
  \/ ApplyMetadata
  \/ \E outcome \in DbOutcomes, commit_ok \in BOOLEAN : TagRekordbox(outcome, commit_ok)
  \/ MarkProcessed
  \/ \E commit_ok \in BOOLEAN : FinalCommit(commit_ok)

Spec == Init /\ [][Next]_vars

(***************************************************************************)
(* The functions of the module called on their own                         *)
(***************************************************************************)

\* The energy map {"3": ["tech house"], "5": ["hardstyle"]}.
ExampleMap ==
  << [level |-> "3", genres |-> <<"tech house">>],
     [level |-> "5", genres |-> <<"hardstyle">>] >>

\* An energy map whose levels are not in ascending order.
UnorderedMap ==
  << [level |-> "5", genres |-> <<"house">>],
     [level |-> "3", genres |-> <<"deep house", "tech house">>],
     [level |-> "4", genres |-> <<"afro house">>] >>

\* The arguments the functions are called with.
RatedMaps == {EnergyMapA, ExampleMap, UnorderedMap}

RatedGenres ==
  {"Tech House / Hardstyle", "Deep Afro House", "House", " hardstyle /Polka", "Polka", "",
   "Polka / Jazz", "Afro House / Tech House", "Future House / Deep House",
   "HOUSE/afro house", "Deep House", "Tech House"}

TransitionTitles ==
  {"Song (128-94)", "Song (12-3000)", "Mix 300-400 then 128-94", "Song 128-94", "Song",
   "Song 59-128", "Song 60-200", "Song 201-100", "Song 1128-94", "Song 128-94 and 300-400",
   "50-50 Mix 100-120", "Song 99-100-300"}

ValidatedGenres ==
  {"Tech House Remix", "Remix", "Afro House Edit", "Edit", "Club Mix", "House",
   "Tech House Remix / House", "Remixed", "Mix", "Hard Mix / Hardstyle", "Dance Mix",
   "Ale Lucchi Remix"}

ValidatedFiles ==
  { [title |-> "Song", artist |-> ""],
    [title |-> "Song (Ale Lucchi Remix)", artist |-> "Some Artist"] }

RemixTitles ==
  {"Dynamite (Ale Lucchi Afro House Remix)", "Song (Ale Lucchi Remix)", "Track (Club Mix)",
   "Song (Afro House Remix)", "Song [DJ Snake Tech House Edit]", "Song (DJ Snake Remix)",
   "Song", "Song (Remix)", "Song (feat. X) (Bob Tech House Bootleg)"}

Calls ==
  {[NoCall EXCEPT !.fn = "determine_energy_rating", !.genre = g, !.emap = m] :
     g \in RatedGenres, m \in RatedMaps}
    \cup {[NoCall EXCEPT !.fn = "detect_transition", !.title = t] : t \in TransitionTitles}
    \cup {[NoCall EXCEPT !.fn = "validate_genre", !.genre = g, !.title = f.title,
                         !.artist = f.artist] : g \in ValidatedGenres, f \in ValidatedFiles}
    \cup {[NoCall EXCEPT !.fn = "extract_remixer_from_title", !.title = t] : t \in RemixTitles}

\* One of the functions is about to be called; main() does not run.
FnInit ==
  /\ call \in Calls
  /\ pc = "call"
  /\ memo = <<>>
  /\ energy_map = <<>>
  /\ soundcloud_enabled = FALSE
  /\ rekordbox_enabled = FALSE
  /\ processed_songs = {}
  /\ failed_files = <<>>
  /\ unknown_genres = <<>>
  /\ tagstore = <<>>
  /\ db_session = InitialDb
  /\ db_committed = InitialDb
  /\ visited = {}
  /\ cur = NoFile
  /\ attempt = 0
  /\ info = EmptyDict
  /\ gemini_genre = ""
  /\ rating = NoRating
  /\ trk = NewTrack

main_vars ==
  <<energy_map, soundcloud_enabled, rekordbox_enabled, memo, processed_songs, failed_files,
    unknown_genres, tagstore, db_session, db_committed, visited, cur, attempt, info,
    gemini_genre, rating, trk>>

\* The function returns.
Return(value) ==
  /\ call' = [call EXCEPT !.result = value]
  /\ pc' = "return"
  /\ UNCHANGED main_vars

CallRating ==
  /\ pc = "call"
  /\ call.fn = "determine_energy_rating"
  /\ Return(determine_energy_rating(call.genre, call.emap))

CallTransition ==
  /\ pc = "call"
  /\ call.fn = "detect_transition"
  /\ Return(detect_transition(call.title))

CallValidate ==
  /\ pc = "call"
  /\ call.fn = "validate_genre"
  /\ Return(validate_genre(call.genre, call.title, call.artist))

CallRemixer ==
  /\ pc = "call"
  /\ call.fn = "extract_remixer_from_title"
  /\ Return(extract_remixer_from_title(call.title))

FnNext ==
  \/ CallRating
  \/ CallTransition
  \/ CallValidate
  \/ CallRemixer

FnSpec == FnInit /\ [][FnNext]_vars

(***************************************************************************)
(* Properties of the processing loop                                       *)
(***************************************************************************)

\* The places of main() where the genre of the iteration is final.
Resolved == {"skipped", "apply", "unrated", "rekordbox", "mark", "tagged"}

\* The places of main() after apply_metadata saved the file.
Written == {"unrated", "rekordbox", "mark", "tagged"}

\* The places of main() of a track that passed the rating check.
Accepted == {"rekordbox", "mark", "tagged"}

\* info.get("genre", "") of the iteration.
FinalGenre == Get(info, "genre", "")

\* The remembered AI genre as a genre to validate: None when there is none.
AIGenre == IF Truthy(gemini_genre) THEN gemini_genre ELSE None

\* The step writes to no store: tag store, library database and ledger stay.
NoStoreWritten ==
  /\ tagstore' = tagstore
  /\ db_session' = db_session
  /\ db_committed' = db_committed
  /\ processed_songs' = processed_songs

\* The components are in case-insensitive alphabetical order.
InOrder(parts) ==
  \A i \in 1..(Len(parts) - 1) : ~StrLess(lower(parts[i + 1]), lower(parts[i]))

\* C1: when no rating is found for the final genre and the genre holds no
\* "mashup", the track is skipped as a whole: the step that finds this out
\* has written nothing to the tag store (genre, artist, year), nothing to the
\* library database, and has not added the title to the ledger.
C1_UnratedTrackWritesNothing ==
  [][(pc = "apply" /\ pc' = "unrated") => NoStoreWritten]_vars

C3_RejectedGenreSkips ==
  [][(/\ pc \in {"query", "search"}
      /\ pc' \in Resolved
      /\ Truthy(trk'.handed)
      /\ memo.Validated[trk'.handed, cur.path] = None
      /\ \/ memo.Lower[gemini_genre'] = memo.Lower[trk'.handed]
         \/ memo.Validated[gemini_genre', cur.path] = None)
     => (pc' = "skipped" /\ NoStoreWritten /\ unknown_genres' = unknown_genres)]_vars

\* AI genre "EDM", no genre in the title, no search match: skipped, the file
\* never saved.
C3_Witness ==
  /\ pc = "skipped"
  /\ trk.source = "ai"
  /\ trk.handed = "EDM"
  /\ gemini_genre = "EDM"
  /\ trk.validated = None
  /\ ~tagstore[cur.path].saved

\* C4: the genre handed to validate_genre: for is_remix false the AI genre,
\* with neither the title extraction nor the search called; for is_remix true
\* the genre found in the title (the search is not called), else the search
\* genre when search is enabled, a remixer was extracted, a result came back
\* and its artist matches the remixer, else the AI genre.
C4_GenreSource ==
  pc \in Resolved =>
    LET is_remix == Get(info, "is_remix", FALSE)
        title_genre == memo.TitleGenre[cur.title]
        remixer == memo.Remixer[cur.title]
        found == trk.sc_result
    IN IF ~is_remix
         THEN trk.handed = AIGenre /\ ~trk.title_consulted /\ ~trk.search_invoked
       ELSE IF Truthy(title_genre)
         THEN trk.handed = title_genre /\ ~trk.search_invoked
       ELSE IF soundcloud_enabled /\ Truthy(remixer)
         THEN /\ trk.search_invoked
              /\ trk.handed = IF found # <<>> /\ memo.RemixerMatch[cur.title, found[2]]
                                THEN found[1] ELSE AIGenre
       ELSE ~trk.search_invoked /\ trk.handed = AIGenre

\* A remix without a genre in its title took the genre of a search result
\* whose artist is the remixer, the AI genre being another one.
C4_Witness ==
  /\ pc = "tagged"
  /\ trk.search_invoked
  /\ trk.sc_result = <<"Afro House", "ale lucchi">>
  /\ trk.handed = "Afro House"
  /\ gemini_genre = "House"

\* C5: for a remix whose title span holds a known multi-word genre phrase,
\* validate_genre lets the embedded genre through and it is the genre of the
\* track before the suffixes, whatever the AI genre and the search genre are.
C5_EmbeddedGenreBecomesGenre ==
  (pc \in Resolved /\ Get(info, "is_remix", FALSE) /\ Truthy(memo.TitleGenre[cur.title]))
    => /\ trk.validated = memo.TitleGenre[cur.title]
       /\ ~trk.fallback
       /\ pc # "skipped"

\* C6: the components of the final genre of a track that is persisted are in
\* case-insensitive alphabetical order, also after the Club and Transition
\* suffixes; title "Track (Club Mix) 128-128" with genre "House" ends as
\* "Club / House / Transition".
C6_FinalGenreSorted ==
  pc \in Accepted =>
    /\ InOrder(memo.GenreList[FinalGenre])
    /\ (cur.title = "Track (Club Mix) 128-128" /\ trk.validated = "House")
         => FinalGenre = "Club / House / Transition"

\* C7: the final genre of a track that reached the tag-store write holds,
\* case-insensitively, neither the remixer name extracted from the title nor
\* the artist name when that is longer than 3 characters.
C7_NoNameInFinalGenre ==
  pc \in Written =>
    LET remixer == memo.Remixer[cur.title]
        genre_lower == memo.Lower[FinalGenre]
    IN /\ ~(Truthy(remixer) /\ contains(lower(remixer), genre_lower))
       /\ ~(/\ Truthy(cur.artist)
            /\ Len(cur.artist) > ARTIST_MIN_LEN
            /\ contains(lower(cur.artist), genre_lower))

\* C8: no component of the final genre of a track that reached the tag-store
\* write is one of edm, dance, electronic, club music, music, and a component
\* "club" is there only when the club-mix detection appended it.
C8_NoVagueComponent ==
  pc \in Written =>
    \A i \in DOMAIN memo.GenreList[FinalGenre] :
      /\ lower(memo.GenreList[FinalGenre][i]) \notin vague_genres
      /\ lower(memo.GenreList[FinalGenre][i]) = "club" => trk.club_appended

\* C9: a track whose final genre holds "mashup" passes the rating check
\* without a rating whatever the energy map lists: it never ends as unrated,
\* no rating is written to the tag store nor set in the library database,
\* the genre is written to the tag store (and to the database when
\* tag_rekordbox ran through), and at the end the title is in the ledger.
C9_MashupAcceptedUnrated ==
  (pc \in Written /\ memo.HasMashup[FinalGenre]) =>
    /\ pc \in Accepted
    /\ rating = NoRating
    /\ tagstore[cur.path].popm = TagsOf(cur).popm
    /\ tagstore[cur.path].genre = memo.Id3Genre[FinalGenre]
    /\ db_session.tracks[cur.path].rating = OldRow.rating
    /\ db_committed.tracks[cur.path].rating = OldRow.rating
    /\ trk.db_call = "ok" => db_session.tracks[cur.path].genre = FinalGenre
    /\ pc = "tagged" => cur.title \in processed_songs

\* A mashup was tagged under an energy map that lists "mashup" and "club",
\* the genre carrying the club suffix.
C9_Witness ==
  /\ pc = "tagged"
  /\ FinalGenre = "Mashup / Club / Transition"
  /\ energy_map = EnergyMapB
  /\ trk.db_call = "ok"
  /\ cur.title \in processed_songs

\* C10: the AI query of a track makes at most MAX_RETRIES requests: a request
\* is re-sent only after a rate-limit error, any other error ends the query
\* at once, the MAX_RETRIES-th rate-limit error ends it too; every failed
\* query records the track as failed, writes nothing to the tag store, the
\* library database or the ledger, and the loop goes on with the next file.
C10_BoundedQuery ==
  /\ []((pc = "failed" /\ Cardinality(visited) < MaxTracks /\ visited # Paths)
          => ENABLED (\E f \in files_to_process : StartTrack(f)))
  /\ [][/\ pc' = "query" => attempt' \in 0..(MAX_RETRIES - 1)
        /\ (pc = "query" /\ pc' = "query") =>
             (trk'.last_error = "rate_limit" /\ attempt' = attempt + 1 /\ cur' = cur)
        /\ (pc = "query" /\ trk'.last_error = "other") => pc' = "failed"
        /\ (pc = "query" /\ trk'.last_error = "rate_limit" /\ attempt = MAX_RETRIES - 1)
             => pc' = "failed"
        /\ (pc = "query" /\ trk'.last_error # "none") =>
             (pc' \in {"query", "failed"} /\ NoStoreWritten)
        /\ pc' = "failed" =>
             /\ pc = "query"
             /\ failed_files' =
                  Append(failed_files, <<cur.title, "API query failed after all retries">>)
             /\ NoStoreWritten]_vars

\* The query of the second file of the run was given up after rate-limit
\* errors, the file before it having failed as well.
C10_Witness ==
  /\ pc = "failed"
  /\ trk.last_error = "rate_limit"
  /\ Len(failed_files) = 2
  /\ ~tagstore[cur.path].saved
  /\ cur.title \notin processed_songs

\* C11: the failure signal recorded for a track tells a query that was rate
\* limited on every attempt from a query rejected by a non-retryable error:
\* two entries of failed_files behind which these two kinds of error lie
\* carry different signals.
C11_FailureSignalsDiffer ==
  \A i, j \in 1..Len(trk.failures) :
    (trk.failures[i] = "rate_limit" /\ trk.failures[j] = "other")
      => failed_files[i][2] # failed_files[j][2]

\* C12 as stated: a remix track during whose processing the search service
\* could not be reached is left unprocessed: nothing is written to its file
\* and it does not end as tagged, its title added to the ledger.
C12_SearchFailureLeavesUnprocessed ==
  trk.search_failed => (tagstore[cur.path] = TagsOf(cur) /\ pc # "tagged")

\* C12: a search call that fails counts as a search without result: the AI
\* genre is handed to validate_genre, the track is skipped exactly when
\* nothing passes validation or the final genre is "unknown", and a track
\* that passes the rating check has its file written and ends with its title
\* in the ledger.
C12_SearchFailureKeepsAIGenre ==
  (pc \in Resolved /\ trk.search_failed) =>
    /\ trk.sc_result = <<>>
    /\ trk.source = "ai"
    /\ trk.handed = AIGenre
    /\ pc = "skipped" <=> (~Truthy(trk.validated) \/ memo.Lower[FinalGenre] = "unknown")
    /\ pc \in Accepted => tagstore[cur.path].genre = memo.Id3Genre[FinalGenre]
    /\ pc = "tagged" => cur.title \in processed_songs

\* The search failed for "Song (Ale Lucchi Remix)" and the track was tagged
\* with the AI genre.
C12_Witness ==
  /\ pc = "tagged"
  /\ trk.search_failed
  /\ cur.title = "Song (Ale Lucchi Remix)"
  /\ gemini_genre = "House"
  /\ tagstore[cur.path].genre = "House"
  /\ cur.title \in processed_songs

\* The call of tag_rekordbox of the iteration, or the commit after it, raised.
DbFailed == trk.db_call \in {"raises", "partway", "commit_failed"}

\* C13: when tag_rekordbox or the commit after it raises, the file written by
\* apply_metadata stays as written, no other file, no entry of failed_files
\* and no entry of the ledger is touched by the failing call, the title of
\* the track is added to the ledger next, and the loop goes on with the next
\* file.
C13_DbFailureConfined ==
  /\ []((pc \in {"mark", "tagged"} /\ DbFailed) =>
          /\ tagstore[cur.path].saved
          /\ tagstore[cur.path].genre = memo.Id3Genre[FinalGenre]
          /\ pc = "tagged" => cur.title \in processed_songs)
  /\ []((pc = "tagged" /\ DbFailed /\ Cardinality(visited) < MaxTracks /\ visited # Paths)
          => ENABLED (\E f \in files_to_process : StartTrack(f)))
  /\ [][/\ pc = "rekordbox" =>
             /\ pc' = "mark"
             /\ tagstore' = tagstore
             /\ processed_songs' = processed_songs
             /\ failed_files' = failed_files
             /\ unknown_genres' = unknown_genres
        /\ (pc = "mark" /\ DbFailed) =>
             /\ pc' = "tagged"
             /\ processed_songs' = processed_songs \cup {cur.title}
             /\ tagstore' = tagstore]_vars

\* The commit after tag_rekordbox raised for the first track of the run: its
\* file is written, its title is in the ledger, nothing is committed.
C13_Witness ==
  /\ pc = "tagged"
  /\ trk.db_call = "commit_failed"
  /\ Cardinality(visited) = 1
  /\ tagstore[cur.path].saved
  /\ cur.title \in processed_songs
  /\ db_committed = InitialDb

\* The words of a name, in lower case.
WordsOf(name) == {split_ws(lower(name))[i] : i \in 1..Len(split_ws(lower(name)))}

\* The remixer of the title and the artist of the search result have a
\* word of more than 2 characters in common.
SharesWord == \E w \in WordsOf(memo.Remixer[cur.title]) :
                Len(w) > 2 /\ w \in WordsOf(trk.sc_result[2])

\* A word of more than 2 characters of the remixer of the title occurs
\* somewhere in the artist of the search result.
WordOccurs ==
  \E w \in WordsOf(memo.Remixer[cur.title]) :
    /\ Len(w) > 2
    /\ \E i \in 1..Len(trk.sc_result[2]) :
         /\ i + Len(w) - 1 <= Len(trk.sc_result[2])
         /\ SubSeq(lower(trk.sc_result[2]), i, i + Len(w) - 1) = w

\* C14 as stated: the search genre is taken only when the artist of the
\* search result and the remixer share a whole word of more than 2 characters.
C14_SearchGenreOnSharedWord ==
  (pc \in Resolved /\ trk.source = "search") => SharesWord

\* C14: the search genre replaces the AI genre exactly when the search gave a
\* result and a word of more than 2 characters of the remixer occurs, in any
\* case, somewhere in the artist of the result, inside a longer word too;
\* otherwise the AI genre is kept.
C14_SearchGenreOnWordOccurrence ==
  (pc \in Resolved /\ trk.search_invoked) =>
    /\ trk.source = "search" <=> (trk.sc_result # <<>> /\ WordOccurs)
    /\ trk.handed = IF trk.source = "search" THEN trk.sc_result[1] ELSE AIGenre

\* The search for "Song (Ale Lucchi Remix)" found an upload by "Female DJ",
\* in whose name "ale" occurs, and its genre replaced the AI genre.
C14_Witness ==
  /\ pc = "tagged"
  /\ cur.title = "Song (Ale Lucchi Remix)"
  /\ trk.sc_result = <<"Hardstyle", "female dj">>
  /\ trk.source = "search"
  /\ gemini_genre = "House"
  /\ FinalGenre = "Hardstyle"

\* The labels parse_response knows and the keys it files their values under.
Labels ==
  {"Is Remix:", "Genre:", "Original Artists:", "Original Song Release:", "Situation:",
   "Commercial Friendly:"}

Keys == {"is_remix", "genre", "artists", "year", "situation", "commercial"}

\* No line of the text begins with one of the labels.
NoLabel(text) ==
  \A i \in 1..Len(text) :
    (i = 1 \/ Ch(text, i - 1) = "\n") =>
      \A l \in Labels : SubSeq(text, i, i + Len(l) - 1) # l

\* C15: parse_response yields a record for every reply, with no other keys
\* than the six; for a reply no line of which begins with a label the record
\* is empty, and the track is skipped at once, its file, the library database,
\* the ledger and failed_files being left as they were.
C15_UnlabelledReplySkipped ==
  /\ [](\A r \in DOMAIN memo.Parsed : DOMAIN memo.Parsed[r] \subseteq Keys)
  /\ []((trk.ai_ok /\ NoLabel(trk.reply)) =>
          /\ info = EmptyDict
          /\ pc = "skipped"
          /\ tagstore[cur.path] = TagsOf(cur))
  /\ [][(pc = "query" /\ trk'.ai_ok /\ NoLabel(trk'.reply)) =>
          /\ pc' = "skipped"
          /\ NoStoreWritten
          /\ failed_files' = failed_files
          /\ unknown_genres' = unknown_genres]_vars

\* The reply to the query of a track was a sentence without any label: the
\* record is empty and the track skipped, nothing written.
C15_Witness ==
  /\ pc = "skipped"
  /\ trk.reply = "Sorry, I cannot classify this song."
  /\ info = EmptyDict
  /\ tagstore[cur.path] = TagsOf(cur)
  /\ cur.title \notin processed_songs
  /\ failed_files = <<>>

(***************************************************************************)
(* Properties of the functions called on their own                         *)
(***************************************************************************)

\* The function fn has returned.
Returned(fn) == pc = "return" /\ call.fn = fn

\* word occurs somewhere in text.
Occurs(word, text) ==
  \E i \in 1..Len(text) :
    i + Len(word) - 1 <= Len(text) /\ SubSeq(text, i, i + Len(word) - 1) = word

\* The "/"-delimited components of a genre, trimmed and in lower case.
ComponentsOf(genre) ==
  {lower(strip(split(genre, "/")[i])) : i \in 1..Len(split(genre, "/"))}

\* The levels of the map, by position, one of whose entries is the component,
\* and those one of whose entries occurs in it.
LevelsHolding(component, emap) ==
  {i \in 1..Len(emap) : \E j \in 1..Len(emap[i].genres) : emap[i].genres[j] = component}

LevelsWithin(component, emap) ==
  {i \in 1..Len(emap) :
     \E j \in 1..Len(emap[i].genres) : Occurs(emap[i].genres[j], component)}

\* The level of a component: of the first level holding it, else of the
\* first level with an entry occurring in it, else none.
LevelOf(component, emap) ==
  IF LevelsHolding(component, emap) # {}
    THEN IntOf(emap[First(LevelsHolding(component, emap))].level)
  ELSE IF LevelsWithin(component, emap) # {}
    THEN IntOf(emap[First(LevelsWithin(component, emap))].level)
  ELSE NoRating

\* C16: determine_energy_rating returns the highest of the levels of the
\* components of the genre that have one, the level of a component being that
\* of the first level of the map holding it or, when none holds it, of the
\* first level an entry of which occurs in it; it returns no rating when no
\* component has a level; {3: [tech house], 5: [hardstyle]} and
\* "Tech House / Hardstyle" give 5.
C16_RatingIsHighestLevel ==
  Returned("determine_energy_rating") =>
    /\ \A c \in ComponentsOf(call.genre) : LevelOf(c, call.emap) <= call.result
    /\ \/ \E c \in ComponentsOf(call.genre) :
            LevelOf(c, call.emap) # NoRating /\ LevelOf(c, call.emap) = call.result
       \/ /\ call.result = NoRating
          /\ \A c \in ComponentsOf(call.genre) : LevelOf(c, call.emap) = NoRating
    /\ (call.emap = ExampleMap /\ call.genre = "Tech House / Hardstyle") => call.result = 5

\* determine_energy_rating returned 5 for "Tech House / Hardstyle" under the
\* map {3: [tech house], 5: [hardstyle]}.
C16_Witness ==
  /\ Returned("determine_energy_rating")
  /\ call.emap = ExampleMap
  /\ call.genre = "Tech House / Hardstyle"
  /\ call.result = 5

\* Two integers of 2 or 3 digits with a hyphen between them stand at
\* position p of the title, both of them within BPM_MIN..BPM_MAX.
PlausiblePairAt(title, p) ==
  \E m, n \in {2, 3} :
    /\ p + m + n <= Len(title)
    /\ WordBoundary(title, p)
    /\ AllDigits(SubSeq(title, p, p + m - 1))
    /\ Ch(title, p + m) = "-"
    /\ AllDigits(SubSeq(title, p + m + 1, p + m + n))
    /\ WordBoundary(title, p + m + n + 1)
    /\ IntOf(SubSeq(title, p, p + m - 1)) \in BPM_MIN..BPM_MAX
    /\ IntOf(SubSeq(title, p + m + 1, p + m + n)) \in BPM_MIN..BPM_MAX

\* C17: detect_transition(title) is true exactly when the title holds,
\* somewhere, two integers of 2 or 3 digits with a hyphen between them, both
\* within 60..200, whatever pairs stand before them.
C17_TransitionIffPlausiblePair ==
  Returned("detect_transition") =>
    (call.result <=> \E p \in 1..Len(call.title) : PlausiblePairAt(call.title, p))

\* The words the ending-word rule of validate_genre is about.
EndingWords == {"edit", "mix", "remix"}

\* The genre component is a genre of the energy map EnergyMapA followed by
\* one of the ending words.
GenreBeforeEndingWord(component) ==
  \E w \in EndingWords :
    \E i \in 1..Len(KnownGenres(EnergyMapA)) :
      lower(component) = KnownGenres(EnergyMapA)[i] \o " " \o w

\* The components of a genre string, trimmed.
PartsOf(genre) == {strip(split(genre, "/")[i]) : i \in 1..Len(split(genre, "/"))}

\* C18: the ending-word rule of validate_genre does not reject a component
\* in which a genre stands before the final "edit", "mix" or "remix": such a
\* component, "Tech House Remix" for one, is among the components returned.
C18_EndingWordAfterGenreKept ==
  Returned("validate_genre") =>
    \A c \in PartsOf(call.genre) : GenreBeforeEndingWord(c) => c \in PartsOf(call.result)

\* The name ends in a multi-word genre of the energy map EnergyMapA that
\* follows other words.
EndsInKnownGenre(name) ==
  \E i \in 1..Len(KnownGenres(EnergyMapA)) :
    /\ IsMultiWord(KnownGenres(EnergyMapA)[i])
    /\ endswith(lower(name), " " \o KnownGenres(EnergyMapA)[i])

\* C19: what extract_remixer_from_title returns for a span made of a name, a
\* known multi-word genre and a remix keyword is the name without the genre:
\* "Ale Lucchi" for "Dynamite (Ale Lucchi Afro House Remix)".
C19_RemixerWithoutGenre ==
  Returned("extract_remixer_from_title") =>
    /\ ~EndsInKnownGenre(call.result)
    /\ call.title = "Dynamite (Ale Lucchi Afro House Remix)" => call.result = "Ale Lucchi"

\* The entry j of level i of the map occurs in the component and no entry of
\* any level that occurs in it is longer.
LongestWithin(component, emap, i, j) ==
  /\ Occurs(emap[i].genres[j], component)
  /\ \A k \in 1..Len(emap) : \A l \in 1..Len(emap[k].genres) :
       Occurs(emap[k].genres[l], component) =>
         Len(emap[k].genres[l]) <= Len(emap[i].genres[j])

\* C21: a genre of one component that no level holds but in which entries
\* of the map occur is rated with the level of the longest of the entries,
\* of all levels, that occur in it.
C21_LongestEntryRates ==
  Returned("determine_energy_rating") =>
    \A c \in ComponentsOf(call.genre) :
      (/\ ComponentsOf(call.genre) = {c}
       /\ LevelsHolding(c, call.emap) = {}
       /\ LevelsWithin(c, call.emap) # {}) =>
        \E i \in 1..Len(call.emap) : \E j \in 1..Len(call.emap[i].genres) :
          /\ LongestWithin(c, call.emap, i, j)
          /\ call.result = IntOf(call.emap[i].level)

(***************************************************************************)
(* Properties of the library database                                      *)
(***************************************************************************)

\* The track of the iteration is linked to a tag of that name whose parent is
\* the tag named parent_name.
LinkedUnder(name, parent_name) ==
  /\ name \in db_session.tracks[cur.path].links
  /\ [name |-> name, parent |-> parent_name] \in db_session.tags

\* C20: after tag_rekordbox ran through, every component of the genre is
\* linked to the track by a tag whose parent is "Genre", and each of the tags
\* "Bar", "Club" and "Commercial" the situation and the commercial line ask
\* for by a tag whose parent is "Situation", a name asked for under both
\* parents included.
C20_TagsUnderNamedParent ==
  (pc \in {"mark", "tagged"} /\ trk.db_call = "ok") =>
    /\ \A i \in 1..Len(memo.GenreList[FinalGenre]) :
         LinkedUnder(memo.GenreList[FinalGenre][i], "Genre")
    /\ memo.should_add_bar[Get(info, "situation", "")] => LinkedUnder("Bar", "Situation")
    /\ memo.should_add_club[Get(info, "situation", "")] => LinkedUnder("Club", "Situation")
    /\ memo.should_add_commercial[Get(info, "commercial", "")] =>
         LinkedUnder("Commercial", "Situation")

(***************************************************************************)
(* Properties of the ledger and of the commits                             *)
(***************************************************************************)

\* C22: whenever the query of a track is sent to the AI classifier, the
\* title of the track is not in the ledger, a file with the title of a file
\* tagged earlier in the run included.
C22_QueriedTitleNotInLedger ==
  pc = "query" => cur.title \notin processed_songs

\* C23: the changes tag_rekordbox made to the row of a track before it
\* raised are never committed: the committed row of such a track stays as it
\* was before the run, after the commits of later tracks and after the final
\* commit too.
C23_PartialChangesNotCommitted ==
  \A p \in trk.partial : db_committed.tracks[p] = OldRow

\* C24: the final genre of a track that passed the rating check, whose file
\* is written and whose title is added to the ledger, has no component
\* "unknown", in any case, a Club or Transition suffix after "Unknown"
\* included.
C24_NoUnknownComponent ==
  pc \in Accepted =>
    \A i \in DOMAIN memo.GenreList[FinalGenre] :
      lower(memo.GenreList[FinalGenre][i]) # "unknown"

====
